---- MODULE Spec2Model ----
(***************************************************************************)
(* The noise app: the FileUpload React component (frontend) and the        *)
(* Express server stub (backend).                                          *)
(*                                                                         *)
(* The component is modelled as its eight useState cells plus the          *)
(* handleSubmit invocations that are suspended at an await.  One action    *)
(* is one task of the browser's event loop: a user event with its handler, *)
(* or the settling of a pending promise together with every continuation   *)
(* that runs before the next pending await (the microtasks of a settled    *)
(* promise run before any further user event).  User events are the ones   *)
(* the rendered form offers: a disabled or unrendered control fires        *)
(* nothing.                                                                *)
(*                                                                         *)
(* Strings the code inspects (file names, the location) are sequences of   *)
(* characters; strings the code builds (error messages) are sequences of   *)
(* the parts it concatenates.  Scores are in percent.                      *)
(***************************************************************************)
EXTENDS Integers, Sequences, FiniteSets, TLC

\* Bounds of the model.
MaxUploads == 2     \* submits started and not failed: history length + flows in flight
MaxRequests == 4    \* requests sent to the backend

\* null of JavaScript
Null == [null |-> TRUE]

------------------------------------------------------------------------------
\* Inputs.

\* File objects a user can drop or pick: name, MIME type, size, lastModified.
FileNameOnly == [name |-> <<"b", ".", "m", "p", "3">>, type |-> "",
                 size |-> 2048, lastModified |-> 11]
FileTypeOnly == [name |-> <<"c", ".", "M", "P", "3">>, type |-> "audio/mpeg",
                 size |-> 0, lastModified |-> 12]
FileOther == [name |-> <<"d", ".", "M", "P", "3">>, type |-> "audio/mp3",
              size |-> 512, lastModified |-> 13]
Files == {FileNameOnly, FileTypeOnly, FileOther}

\* Texts of the location input.
Locations == {<<>>, <<" ">>, <<" ", "p", " ">>}

\* e.type of the drag events handleDrag is bound to.
DragTypes == {"dragenter", "dragover", "dragleave"}

\* Lists of {label, score} objects the endpoint can answer with.
Item(label, score) == [label |-> label, score |-> score]
EndpointResults ==
    {<<>>,
     <<Item("low", 40), Item("moderate", 40)>>,
     <<Item("low", 10), Item("high", 90)>>,
     <<Item("very_high", 70), Item("high", 20), Item("low", 70)>>}

\* Responses of the endpoint: status and statusText.
Responses == {[status |-> 200, statusText |-> "OK"],
              [status |-> 503, statusText |-> "Service Unavailable"],
              [status |-> 500, statusText |-> "Internal Server Error"]}

\* Values a promise can reject with: an Error with its message, or a non-Error.
JsError(msg) == [isError |-> TRUE, message |-> msg]
NonError == [isError |-> FALSE, message |-> <<>>]
\* what the platform calls (arrayBuffer, fetch, text, json) reject with
PlatformErrors == {JsError(<<"Failed to fetch">>)}
\* what the upload callback of the embedding page can reject with
UploadErrors == {JsError(<<"Upload rejected">>), NonError}

\* new Date().toLocaleString()
LocaleTimes == {"11/5/2026, 6:00:00 AM"}

------------------------------------------------------------------------------
\* String functions of the platform.

\* String.prototype.endsWith
EndsWith(s, suffix) ==
    /\ Len(s) >= Len(suffix)
    /\ SubSeq(s, Len(s) - Len(suffix) + 1, Len(s)) = suffix

RECURSIVE TrimStart(_)
TrimStart(s) == IF s # <<>> /\ Head(s) = " " THEN TrimStart(Tail(s)) ELSE s

RECURSIVE TrimEnd(_)
TrimEnd(s) ==
    IF s # <<>> /\ s[Len(s)] = " " THEN TrimEnd(SubSeq(s, 1, Len(s) - 1)) ELSE s

\* String.prototype.trim
Trim(s) == TrimEnd(TrimStart(s))

\* a sequence without its i-th element
RemoveAt(s, i) == SubSeq(s, 1, i - 1) \o SubSeq(s, i + 1, Len(s))

------------------------------------------------------------------------------
VARIABLES
    HF_API_TOKEN,           \* import.meta.env.VITE_HF_API_TOKEN is set (read once)
    file,                   \* useState<File | null>
    location,               \* useState('')
    isUploading,            \* useState(false)
    isClassifying,          \* useState(false)
    error,                  \* useState<string | null>: Null or [message |-> parts]
    dragActive,             \* useState(false)
    uploadedFiles,          \* useState<UploadedFileInfo[]>
    classificationResult,   \* useState<ClassificationResult[] | null>: Null or [results |-> list]
    fileInput,              \* the file held by the DOM input #file-upload, or Null
    flows,                  \* the handleSubmit invocations suspended at an await
    httpLog                 \* the backend's exchanges: request and response, oldest first

form == <<file, location, isUploading, isClassifying, error, dragActive,
          uploadedFiles, classificationResult, fileInput>>
vars == <<HF_API_TOKEN, file, location, isUploading, isClassifying, error, dragActive,
          uploadedFiles, classificationResult, fileInput, flows, httpLog>>


Init ==
    /\ HF_API_TOKEN \in BOOLEAN
    /\ file = Null
    /\ location = <<>>
    /\ isUploading = FALSE
    /\ isClassifying = FALSE
    /\ error = Null
    /\ dragActive = FALSE
    /\ uploadedFiles = <<>>
    /\ classificationResult = Null
    /\ fileInput = Null
    /\ flows = <<>>
    /\ httpLog = <<>>

------------------------------------------------------------------------------
\* Selecting a file.

\* the test both handlers apply to the file of their event
IsMp3TypeOnly(f) == f.type = "audio/mpeg"
IsMp3(f) == f.type = "audio/mpeg" \/ EndsWith(f.name, <<".", "m", "p", "3">>)

Mp3Error == [message |-> <<"Please upload an MP3 file">>]

HandleDrag(t) ==
    /\ dragActive' = IF t = "dragenter" \/ t = "dragover" THEN TRUE
                     ELSE IF t = "dragleave" THEN FALSE
                     ELSE dragActive
    /\ UNCHANGED <<HF_API_TOKEN, file, location, isUploading, isClassifying, error,
                   uploadedFiles, classificationResult, fileInput, flows, httpLog>>

\* a rejected drop that also unselects the file
HandleDropUnselects(f) ==
    /\ dragActive' = FALSE
    /\ IF f # Null
       THEN IF IsMp3(f)
            THEN /\ file' = f
                 /\ error' = Null
                 /\ classificationResult' = Null
            ELSE /\ error' = Mp3Error
                 /\ file' = Null
                 /\ UNCHANGED classificationResult
       ELSE UNCHANGED <<file, error, classificationResult>>
    /\ UNCHANGED <<HF_API_TOKEN, location, isUploading, isClassifying, uploadedFiles,
                   fileInput, flows, httpLog>>

\* A drop on the drop zone; f is e.dataTransfer.files[0], Null when the drag
\* carries no file.
HandleDrop(f) ==
    /\ dragActive' = FALSE
    /\ IF f # Null
       THEN IF IsMp3(f)
            THEN /\ file' = f
                 /\ error' = Null
                 /\ classificationResult' = Null
            ELSE /\ error' = Mp3Error
                 /\ UNCHANGED <<file, classificationResult>>
       ELSE UNCHANGED <<file, error, classificationResult>>
    /\ UNCHANGED <<HF_API_TOKEN, location, isUploading, isClassifying, uploadedFiles,
                   fileInput, flows, httpLog>>

\* The change event of the hidden input #file-upload; f is e.target.files[0],
\* Null when the selection was cleared.  The input is reached through its
\* label, which is rendered only while no file is selected, and the event
\* fires only when the input's selection changes.
HandleFileChange(f) ==
    /\ file = Null
    /\ f # fileInput
    /\ fileInput' = f
    /\ IF f # Null
       THEN IF IsMp3(f)
            THEN /\ file' = f
                 /\ error' = Null
                 /\ classificationResult' = Null
            ELSE /\ error' = Mp3Error
                 /\ UNCHANGED <<file, classificationResult>>
       ELSE UNCHANGED <<file, error, classificationResult>>
    /\ UNCHANGED <<HF_API_TOKEN, location, isUploading, isClassifying, dragActive,
                   uploadedFiles, flows, httpLog>>

\* The Remove File button, rendered while a file is selected.
RemoveFile ==
    /\ file # Null
    /\ file' = Null
    /\ classificationResult' = Null
    /\ UNCHANGED <<HF_API_TOKEN, location, isUploading, isClassifying, error, dragActive,
                   uploadedFiles, fileInput, flows, httpLog>>

\* Typing into the location input, disabled while isUploading.
LocationChange(v) ==
    /\ ~isUploading
    /\ v # location
    /\ location' = v
    /\ UNCHANGED <<HF_API_TOKEN, file, isUploading, isClassifying, error, dragActive,
                   uploadedFiles, classificationResult, fileInput, flows, httpLog>>

------------------------------------------------------------------------------
\* Error texts.

\* error instanceof Error ? error.message : fallback
ErrorMessage(e, fallback) == IF e.isError THEN e.message ELSE fallback

TokenMissing == JsError(<<"Hugging Face API token is not configured">>)
ModelLoadingMessage == <<"Model is loading, please wait a moment and try again">>

\* what classifyAudio throws for a response that is not ok, once its body is read
ResponseError(response) ==
    IF response.status = 503
    THEN JsError(ModelLoadingMessage)
    ELSE JsError(<<"Endpoint error: ", ToString(response.status), " - ",
                   response.statusText>>)

\* the catch of classifyAudio rethrows
ClassifyCatch(e) ==
    JsError(<<"Classification failed: ">> \o ErrorMessage(e, <<"Unknown error">>))

\* the catch around the classification in handleSubmit
ClassErrorText(classError) ==
    [message |-> <<"Audio classification failed: ">>
                 \o ErrorMessage(classError, <<"Unknown error">>)]

\* the outer catch of handleSubmit
UploadErrorText(err) == [message |-> ErrorMessage(err, <<"Failed to upload file">>)]

------------------------------------------------------------------------------
\* The top prediction.

UnknownPrediction == [label |-> "unknown", confidence |-> 0]

\* a callback keeping the later of two equal scores
ReduceCallbackKeepsLater(max, current) ==
    IF current.score >= max.score THEN current ELSE max

\* (max, current) => current.score > max.score ? current : max
ReduceCallback(max, current) ==
    IF current.score > max.score THEN current ELSE max

\* Array.prototype.reduce without an initial value: the accumulator starts as
\* the first element, the callback runs on the elements from index i on.
RECURSIVE Reduce(_, _, _)
Reduce(list, i, acc) ==
    IF i > Len(list) THEN acc ELSE Reduce(list, i + 1, ReduceCallback(acc, list[i]))

\* the locals classification and topPrediction once classifyAudio has returned
TopPrediction(classification) ==
    IF Len(classification) > 0
    THEN LET top == Reduce(classification, 2, classification[1])
         IN  [label |-> top.label, confidence |-> top.score]
    ELSE UnknownPrediction

------------------------------------------------------------------------------
\* handleSubmit and classifyAudio.

\* the submit button's disabled attribute without the busy flags
SubmitDisabledIgnoresBusy == file = Null \/ Trim(location) = <<>>

\* the submit button's disabled attribute
SubmitDisabled == file = Null \/ Trim(location) = <<>> \/ isUploading \/ isClassifying

\* an invocation that starts the upload next to the classification
NewFlowUploadsAtOnce(f, loc) ==
    [file |-> f, location |-> loc, pc |-> "arrayBuffer",
     classifyAudio |-> "pending", onUpload |-> [file |-> f, location |-> loc],
     requests |-> 0, response |-> Null, classError |-> Null,
     classification |-> <<>>, topPrediction |-> UnknownPrediction]

\* A handleSubmit invocation on entering classifyAudio: the file and location
\* of its closure, the await it is suspended at (pc), the promises of its two
\* calls (onUpload: Null until called, then the arguments of the pending
\* call), the requests sent to the endpoint, the response received, and its
\* locals classError, classification and topPrediction.
NewFlow(f, loc) ==
    [file |-> f, location |-> loc, pc |-> "arrayBuffer",
     classifyAudio |-> "pending", onUpload |-> Null,
     requests |-> 0, response |-> Null, classError |-> Null,
     classification |-> <<>>, topPrediction |-> UnknownPrediction]

\* a failed classification that ends the submit
AfterClassifyRejectsNoUpload(flow, e) ==
    [flow EXCEPT !.pc = "return", !.classifyAudio = "rejected",
                 !.classError = ClassifyCatch(e)]

\* The invocation once classifyAudio has thrown e inside its try: the catch
\* rethrows, handleSubmit catches and goes on to call onUpload.
AfterClassifyRejects(flow, e) ==
    [flow EXCEPT !.pc = "onUpload", !.classifyAudio = "rejected",
                 !.classError = ClassifyCatch(e),
                 !.onUpload = [file |-> flow.file, location |-> flow.location]]

\* The invocation once classifyAudio has returned result: the top prediction
\* is computed and onUpload called.
AfterClassifyResolves(flow, result) ==
    [flow EXCEPT !.pc = "onUpload", !.classifyAudio = "resolved",
                 !.classification = result,
                 !.topPrediction = TopPrediction(result),
                 !.onUpload = [file |-> flow.file, location |-> flow.location]]

\* The submit event of the form: the submit button, or Enter in the location
\* input, which submits only through an enabled submit button.
Submit ==
    /\ ~SubmitDisabled
    /\ Len(uploadedFiles) + Len(flows) < MaxUploads
    /\ IF file = Null
       THEN /\ error' = [message |-> <<"Please select a file to upload">>]
            /\ UNCHANGED <<isUploading, isClassifying, classificationResult, flows>>
       ELSE IF Trim(location) = <<>>
       THEN /\ error' = [message |-> <<"Please enter a location">>]
            /\ UNCHANGED <<isUploading, isClassifying, classificationResult, flows>>
       ELSE /\ isUploading' = TRUE
            /\ classificationResult' = Null
            /\ IF ~HF_API_TOKEN
               THEN \* classifyAudio throws before its first await
                    /\ isClassifying' = FALSE
                    /\ error' = ClassErrorText(ClassifyCatch(TokenMissing))
                    /\ flows' = Append(flows,
                                  AfterClassifyRejects(NewFlow(file, location), TokenMissing))
               ELSE /\ isClassifying' = TRUE
                    /\ error' = Null
                    /\ flows' = Append(flows, NewFlow(file, location))
    /\ UNCHANGED <<HF_API_TOKEN, file, location, dragActive, uploadedFiles, fileInput,
                   httpLog>>

\* a failed classification that leaves isClassifying set
ClassifyRejectsStaysClassifying(i, e) ==
    /\ error' = ClassErrorText(ClassifyCatch(e))
    /\ flows' = [flows EXCEPT ![i] = AfterClassifyRejects(flows[i], e)]
    /\ UNCHANGED <<HF_API_TOKEN, file, location, isUploading, isClassifying, dragActive,
                   uploadedFiles, classificationResult, fileInput, httpLog>>

\* classifyAudio of flow i throws e after an await: finally, then the catch of
\* handleSubmit.
ClassifyRejects(i, e) ==
    /\ isClassifying' = FALSE
    /\ error' = ClassErrorText(ClassifyCatch(e))
    /\ flows' = [flows EXCEPT ![i] = AfterClassifyRejects(flows[i], e)]
    /\ UNCHANGED <<HF_API_TOKEN, file, location, isUploading, dragActive, uploadedFiles,
                   classificationResult, fileInput, httpLog>>

\* audioFile.arrayBuffer() settles: the request goes out, or reading failed.
ArrayBufferSettles(i) ==
    /\ flows[i].pc = "arrayBuffer"
    /\ \/ /\ flows' = [flows EXCEPT ![i] = [@ EXCEPT !.pc = "fetch",
                                                   !.requests = @ + 1]]
          /\ UNCHANGED <<HF_API_TOKEN, form, httpLog>>
       \/ \E e \in PlatformErrors : ClassifyRejects(i, e)

\* fetch settles: a response arrived (its body is read next, as JSON when
\* response.ok and as text otherwise), or the request failed.
FetchSettles(i) ==
    /\ flows[i].pc = "fetch"
    /\ \/ \E response \in Responses :
            /\ flows' = [flows EXCEPT ![i] =
                           [@ EXCEPT !.response = response,
                                     !.pc = IF response.status \in 200..299
                                            THEN "json" ELSE "text"]]
            /\ UNCHANGED <<HF_API_TOKEN, form, httpLog>>
       \/ \E e \in PlatformErrors : ClassifyRejects(i, e)

\* response.text() of a response that is not ok settles: the body is logged
\* and the error of the status thrown, or reading the body failed.
TextSettles(i) ==
    /\ flows[i].pc = "text"
    /\ \/ ClassifyRejects(i, ResponseError(flows[i].response))
       \/ \E e \in PlatformErrors : ClassifyRejects(i, e)

\* response.json() settles: classifyAudio returns the parsed list, or parsing
\* failed.
JsonSettles(i) ==
    /\ flows[i].pc = "json"
    /\ \/ \E result \in EndpointResults :
            /\ classificationResult' = [results |-> result]
            /\ isClassifying' = FALSE
            /\ flows' = [flows EXCEPT ![i] = AfterClassifyResolves(flows[i], result)]
            /\ UNCHANGED <<HF_API_TOKEN, file, location, isUploading, error, dragActive,
                           uploadedFiles, fileInput, httpLog>>
       \/ \E e \in PlatformErrors : ClassifyRejects(i, e)

\* a record built from the file and location the form holds when the upload ends
FileInfoOfSelectedFile(flow, time) ==
    LET selected == IF file # Null THEN file ELSE flow.file IN
    [name |-> selected.name, size |-> selected.size, type |-> selected.type,
     lastModified |-> selected.lastModified, location |-> location,
     uploadTime |-> time, classification |-> flow.classification,
     topPrediction |-> flow.topPrediction]

\* the record of a finished upload
FileInfo(flow, time) ==
    [name |-> flow.file.name, size |-> flow.file.size, type |-> flow.file.type,
     lastModified |-> flow.file.lastModified, location |-> flow.location,
     uploadTime |-> time, classification |-> flow.classification,
     topPrediction |-> flow.topPrediction]

\* a history that grows at its end
AppendHistory(fileInfo, prev) == prev \o <<fileInfo>>

\* setUploadedFiles(prev => [fileInfo, ...prev])
PrependHistory(fileInfo, prev) == <<fileInfo>> \o prev

\* an upload failure that resets the form like a success
OnUploadRejectsResetsForm(i, err) ==
    /\ error' = UploadErrorText(err)
    /\ file' = Null
    /\ location' = <<>>
    /\ isUploading' = FALSE
    /\ flows' = RemoveAt(flows, i)
    /\ UNCHANGED <<HF_API_TOKEN, isClassifying, dragActive, uploadedFiles,
                   classificationResult, fileInput, httpLog>>

\* onUpload of flow i rejects with err: the outer catch, then finally.
OnUploadRejects(i, err) ==
    /\ error' = UploadErrorText(err)
    /\ isUploading' = FALSE
    /\ flows' = RemoveAt(flows, i)
    /\ UNCHANGED <<HF_API_TOKEN, file, location, isClassifying, dragActive, uploadedFiles,
                   classificationResult, fileInput, httpLog>>

\* onUpload of flow i resolves: the record is prepended and the form reset.
OnUploadResolves(i) ==
    /\ \E time \in LocaleTimes :
         uploadedFiles' = PrependHistory(FileInfo(flows[i], time), uploadedFiles)
    /\ file' = Null
    /\ location' = <<>>
    /\ classificationResult' = Null
    /\ fileInput' = Null
    /\ isUploading' = FALSE
    /\ flows' = RemoveAt(flows, i)
    /\ UNCHANGED <<HF_API_TOKEN, isClassifying, error, dragActive, httpLog>>

\* the promise of the pending onUpload call settles
OnUploadSettles(i) ==
    /\ flows[i].pc = "onUpload"
    /\ \/ OnUploadResolves(i)
       \/ \E err \in UploadErrors : OnUploadRejects(i, err)

------------------------------------------------------------------------------
\* The backend.

Payloads == {"", "multipart: b.mp3", "not a form"}

\* a route that refuses an empty body
UploadResponseChecksBody(body) ==
    IF body = ""
    THEN [status |-> 400, body |-> [message |-> "No file uploaded"]]
    ELSE [status |-> 201, body |-> [message |-> "File uploaded successfully"]]

\* app.post("/upload"): the response to a request with this body
UploadResponse(body) ==
    [status |-> 201, body |-> [message |-> "File uploaded successfully"]]

PostUpload(body) ==
    /\ Len(httpLog) < MaxRequests
    /\ httpLog' = Append(httpLog, [request |-> [method |-> "POST", path |-> "/upload",
                                                 body |-> body],
                                   response |-> UploadResponse(body)])
    /\ UNCHANGED <<HF_API_TOKEN, form, flows>>

\* app.get("/")
GetRoot ==
    /\ Len(httpLog) < MaxRequests
    /\ httpLog' = Append(httpLog, [request |-> [method |-> "GET", path |-> "/",
                                                 body |-> ""],
                                   response |-> [status |-> 200, body |-> "Hello World!"]])
    /\ UNCHANGED <<HF_API_TOKEN, form, flows>>

------------------------------------------------------------------------------
\* The form in the browser.
Next ==
    \/ \E t \in DragTypes : HandleDrag(t)
    \/ \E f \in Files \cup {Null} : HandleDrop(f)
    \/ \E f \in Files \cup {Null} : HandleFileChange(f)
    \/ RemoveFile
    \/ \E v \in Locations : LocationChange(v)
    \/ Submit
    \/ \E i \in DOMAIN flows : ArrayBufferSettles(i)
    \/ \E i \in DOMAIN flows : FetchSettles(i)
    \/ \E i \in DOMAIN flows : TextSettles(i)
    \/ \E i \in DOMAIN flows : JsonSettles(i)
    \/ \E i \in DOMAIN flows : OnUploadSettles(i)

Spec == Init /\ [][Next]_vars

\* The form when every pending call settles: each await of a flow is resumed
\* once its promise is settled, by the event loop.
SpecSettling ==
    /\ Init
    /\ [][Next]_vars
    /\ WF_vars(\E i \in DOMAIN flows : ArrayBufferSettles(i))
    /\ WF_vars(\E i \in DOMAIN flows : FetchSettles(i))
    /\ WF_vars(\E i \in DOMAIN flows : TextSettles(i))
    /\ WF_vars(\E i \in DOMAIN flows : JsonSettles(i))
    /\ WF_vars(\E i \in DOMAIN flows : OnUploadSettles(i))

\* The backend serving requests.
ServerNext ==
    \/ \E body \in Payloads : PostUpload(body)
    \/ GetRoot

SpecServer == Init /\ [][ServerNext]_vars

------------------------------------------------------------------------------
\* Properties.

\* the file and location a flow was submitted with, as the arguments of a call
SubmittedArgs(flow) == [file |-> flow.file, location |-> flow.location]

\* C1: whenever the classification of a submit has failed (missing token,
\* unreadable file, network error, response that is not ok, unreadable body),
\* onUpload has been called with the submitted file and location; and when that
\* call resolves, the history becomes one new first entry, with topPrediction
\* {label: 'unknown', confidence: 0} and an empty classification, followed by
\* the history as it was.
C1_UploadAfterFailedClassification ==
    /\ [](\A i \in DOMAIN flows :
            flows[i].classifyAudio = "rejected"
            => flows[i].onUpload = SubmittedArgs(flows[i]))
    /\ [][\A i \in DOMAIN flows :
            (flows[i].classifyAudio = "rejected" /\ OnUploadResolves(i))
            => /\ Len(uploadedFiles') = Len(uploadedFiles) + 1
               /\ Tail(uploadedFiles') = uploadedFiles
               /\ Head(uploadedFiles').topPrediction = [label |-> "unknown", confidence |-> 0]
               /\ Head(uploadedFiles').classification = <<>>
               /\ Head(uploadedFiles').name = flows[i].file.name
               /\ Head(uploadedFiles').location = flows[i].location]_vars

\* an upload has resolved after its classification failed: the form is reset,
\* the classification error still shown, the entry on top of the history
C1_Witness ==
    /\ flows = <<>>
    /\ file = Null
    /\ error # Null
    /\ Head(error.message) = "Audio classification failed: "
    /\ uploadedFiles # <<>>
    /\ Head(uploadedFiles).topPrediction.label = "unknown"

\* C2: a step changes the history only by putting the entry of the upload that
\* completes in that step at index 0, in front of the unchanged earlier
\* entries; nothing is removed or modified.
C2_HistoryGrowsByPrepending ==
    [][uploadedFiles' # uploadedFiles
       => /\ Len(uploadedFiles') = Len(uploadedFiles) + 1
          /\ \A k \in DOMAIN uploadedFiles : uploadedFiles'[k + 1] = uploadedFiles[k]
          /\ \E i \in DOMAIN flows :
               /\ flows' = RemoveAt(flows, i)
               /\ uploadedFiles'[1].name = flows[i].file.name
               /\ uploadedFiles'[1].location = flows[i].location
               /\ uploadedFiles'[1].classification = flows[i].classification]_vars

\* two different entries, the newer one first
C2_Witness ==
    /\ Len(uploadedFiles) = 2
    /\ uploadedFiles[1] # uploadedFiles[2]

\* the name ends in '.mp3'
NameEndsInMp3(f) ==
    \E k \in 0..Len(f.name) : f.name = SubSeq(f.name, 1, k) \o <<".", "m", "p", "3">>

\* C3: a drop or a pick of a file whose type is not 'audio/mpeg' and whose name
\* does not end in '.mp3' sets the error to 'Please upload an MP3 file' and
\* leaves the selected file as it was.
C3_NonMp3Rejected ==
    [][\A f \in Files :
         ((HandleDrop(f) \/ HandleFileChange(f)) /\ f.type # "audio/mpeg" /\ ~NameEndsInMp3(f))
         => /\ error' = [message |-> <<"Please upload an MP3 file">>]
            /\ file' = file]_vars

\* a file was refused by the picker and by a drop that left the selection alone
C3_Witness ==
    /\ error = [message |-> <<"Please upload an MP3 file">>]
    /\ file # Null
    /\ fileInput # Null
    /\ fileInput.type # "audio/mpeg" /\ ~NameEndsInMp3(fileInput)

\* C4: a drop or a pick of a file whose type is 'audio/mpeg' or whose name ends
\* in '.mp3' makes it the selected file and sets error and classificationResult
\* to null, in every state of the form.
C4_ValidFileClearsError ==
    [][\A f \in Files :
         ((HandleDrop(f) \/ HandleFileChange(f)) /\ (f.type = "audio/mpeg" \/ NameEndsInMp3(f)))
         => /\ file' = f
            /\ error' = Null
            /\ classificationResult' = Null]_vars

\* while an upload is pending whose classification failed (the failure was
\* shown), another valid file is selected and no error shown
C4_Witness ==
    /\ Len(flows) = 1
    /\ flows[1].classifyAudio = "rejected"
    /\ error = Null
    /\ file # Null
    /\ file # flows[1].file

\* C5: at most one submit flow is in flight.
C5_OneSubmitInFlight == Len(flows) <= 1

\* a submit is in flight while the form holds another file and a location
C5_Witness ==
    /\ Len(flows) = 1
    /\ file # Null
    /\ file # flows[1].file
    /\ Trim(location) # <<>>

\* C6: within a submit, onUpload is called only once classifyAudio has settled
\* and right when it has, so the two calls never overlap; the top prediction of
\* a returned classification is computed by then; and the history changes only
\* in the step in which a pending onUpload call resolves.
C6_ClassifyThenUploadThenRecord ==
    /\ [](\A i \in DOMAIN flows :
            /\ (flows[i].onUpload = Null) = (flows[i].classifyAudio = "pending")
            /\ (flows[i].pc = "onUpload") = (flows[i].onUpload # Null)
            /\ flows[i].classifyAudio = "pending"
               => flows[i].classification = <<>> /\ flows[i].topPrediction.label = "unknown"
            /\ (flows[i].classifyAudio = "resolved" /\ flows[i].classification # <<>>)
               => flows[i].topPrediction.label # "unknown")
    /\ [][uploadedFiles' # uploadedFiles
          => \E i \in DOMAIN flows :
               /\ flows[i].onUpload # Null
               /\ flows[i].classifyAudio # "pending"
               /\ OnUploadResolves(i)]_vars

\* the upload of a classified file is pending
C6_Witness ==
    \E i \in DOMAIN flows :
        /\ flows[i].onUpload # Null
        /\ flows[i].classifyAudio = "resolved"
        /\ flows[i].requests = 1
        /\ flows[i].topPrediction.label # "unknown"

\* C7: a submit whose request was answered with 503 has failed its
\* classification with the message 'Model is loading, please wait a moment and
\* try again', and no submit sends more than one request.
C7_Status503IsModelLoading ==
    \A i \in DOMAIN flows :
        /\ flows[i].requests <= 1
        /\ (flows[i].response # Null /\ flows[i].response.status = 503
            /\ flows[i].classifyAudio = "rejected")
           => flows[i].classError.message
                = <<"Classification failed: ",
                    "Model is loading, please wait a moment and try again">>

\* C7, the part about retries: no submit sends more than one request.
C7_AtMostOneRequest == \A i \in DOMAIN flows : flows[i].requests <= 1

\* C8: every POST /upload is answered 201 {message: 'File uploaded
\* successfully'}, whatever its body and whatever was requested before it.
C8_UploadAlwaysCreated ==
    \A k \in DOMAIN httpLog :
        (httpLog[k].request.method = "POST" /\ httpLog[k].request.path = "/upload")
        => httpLog[k].response
             = [status |-> 201, body |-> [message |-> "File uploaded successfully"]]

\* uploads with different bodies were answered, the later one after other requests
C8_Witness ==
    \E j, k \in DOMAIN httpLog :
        /\ j + 1 < k
        /\ httpLog[j].request.method = "POST"
        /\ httpLog[k].request.method = "POST"
        /\ httpLog[j].request.body # httpLog[k].request.body
        /\ httpLog[k].request.body = ""

\* the top prediction the claim describes: the first element of maximum score
IsFirstMaximum(list, k) ==
    /\ \A j \in DOMAIN list : list[j].score <= list[k].score
    /\ \A j \in 1..(k - 1) : list[j].score < list[k].score

TopAsClaimed(classification, topPrediction) ==
    IF classification = <<>>
    THEN topPrediction = [label |-> "unknown", confidence |-> 0]
    ELSE \E k \in DOMAIN classification :
           /\ IsFirstMaximum(classification, k)
           /\ topPrediction = [label |-> classification[k].label,
                               confidence |-> classification[k].score]

\* C9: the topPrediction recorded with a non-empty classification is its first
\* element of maximum score; with an empty one it is {label: 'unknown',
\* confidence: 0}.
C9_TopPredictionIsFirstMaximum ==
    /\ \A k \in DOMAIN uploadedFiles :
         TopAsClaimed(uploadedFiles[k].classification, uploadedFiles[k].topPrediction)
    /\ \A i \in DOMAIN flows :
         flows[i].classifyAudio = "resolved"
         => TopAsClaimed(flows[i].classification, flows[i].topPrediction)

\* an entry whose classification has its maximum score twice, with another label later
C9_Witness ==
    \E k \in DOMAIN uploadedFiles :
        LET list == uploadedFiles[k].classification IN
        \E i, j \in DOMAIN list :
            /\ i < j
            /\ IsFirstMaximum(list, i)
            /\ list[j].score = list[i].score
            /\ list[j].label # list[i].label
            /\ uploadedFiles[k].topPrediction.label = list[i].label

\* C10: when onUpload rejects, the error becomes the message of the rejection
\* (or 'Failed to upload file'), whatever it was; the history, the selected
\* file and the location stay as they were; and with a file still selected the
\* form can be submitted again.
C10_RejectedUploadKeepsForm ==
    [][\A i \in DOMAIN flows : \A err \in UploadErrors :
         OnUploadRejects(i, err)
         => /\ error' = [message |-> IF err.isError THEN err.message
                                     ELSE <<"Failed to upload file">>]
            /\ uploadedFiles' = uploadedFiles
            /\ file' = file
            /\ location' = location
            /\ location' = flows[i].location
            /\ (file' # Null => ~SubmitDisabled')]_vars

\* with no token every classification fails: the upload error has replaced the
\* classification error, and the submitted file and location are still there
C10_Witness ==
    /\ ~HF_API_TOKEN
    /\ flows = <<>>
    /\ error \in {[message |-> <<"Upload rejected">>], [message |-> <<"Failed to upload file">>]}
    /\ file # Null
    /\ Trim(location) # <<>>
    /\ uploadedFiles = <<>>

\* C11: a submit keeps the file and the location that were selected when it
\* started, whatever is dropped, picked or removed while its calls are
\* pending; the entry it prepends records the name, size, type and
\* lastModified of that file and that location; and the reset that follows
\* leaves no file selected, whichever file was selected by then.
C11_EntryRecordsSubmittedFile ==
    [][/\ Len(flows') > Len(flows)
          => /\ file # Null
             /\ flows'[Len(flows')].file = file
             /\ flows'[Len(flows')].location = location
       /\ Len(flows') = Len(flows)
          => \A i \in DOMAIN flows :
               /\ flows'[i].file = flows[i].file
               /\ flows'[i].location = flows[i].location
       /\ \A i \in DOMAIN flows :
            OnUploadResolves(i)
            => /\ uploadedFiles'[1].name = flows[i].file.name
               /\ uploadedFiles'[1].size = flows[i].file.size
               /\ uploadedFiles'[1].type = flows[i].file.type
               /\ uploadedFiles'[1].lastModified = flows[i].file.lastModified
               /\ uploadedFiles'[1].location = flows[i].location
               /\ file' = Null]_vars

\* the upload of one file is about to settle while the form holds another
\* file, after an earlier upload was recorded
C11_Witness ==
    /\ Len(uploadedFiles) = 1
    /\ Len(flows) = 1
    /\ flows[1].pc = "onUpload"
    /\ file # Null
    /\ file.name # flows[1].file.name
    /\ uploadedFiles[1].name = file.name

\* C12: isClassifying is set only while a classifyAudio call is pending, and
\* then isUploading is set too; isUploading is set exactly while a submit is in
\* flight, so once a submit has ended, on any path, both flags are false; and
\* when every pending call settles, a busy form always gets back to both flags
\* false, where the submit button is disabled only by a missing file or a
\* blank location.
C12_BusyFlagsReleased ==
    /\ [](isClassifying
          => /\ isUploading
             /\ \E i \in DOMAIN flows : flows[i].classifyAudio = "pending")
    /\ [](isUploading = (flows # <<>>))
    /\ [](flows = <<>>
          => /\ ~isClassifying
             /\ SubmitDisabled = (file = Null \/ Trim(location) = <<>>))
    /\ (isUploading ~> (~isUploading /\ ~isClassifying))

\* after a recorded upload, a second submit has ended with a rejected upload
\* and the form can be submitted again
C12_Witness ==
    /\ Len(uploadedFiles) = 1
    /\ flows = <<>>
    /\ error \in {[message |-> <<"Upload rejected">>], [message |-> <<"Failed to upload file">>]}
    /\ ~isUploading
    /\ ~isClassifying
    /\ ~SubmitDisabled

====
